---- MODULE Spec2Model ----
(***************************************************************************)
(* Apex Log Monitor (apex-log-monitor/server.js): the tail session, the    *)
(* log writer with size rotation, and the archive operations, as a state   *)
(* machine.  Every HTTP handler and every child-process callback runs to   *)
(* completion on the single event loop, so each is one atomic action.      *)
(*                                                                         *)
(* Files are held per directory as name -> contents, contents being the    *)
(* sequence of chunks written.  A write through a stream is taken to have  *)
(* reached the file when write() returns, so statSync sees every byte      *)
(* written so far.                                                         *)
(***************************************************************************)
EXTENDS Integers, Sequences, FiniteSets, TLC

\* ------------------------------------------------------------------ bounds
\* Requests served, chunks delivered and seconds elapsed in one run, together.
\* (Stops, subprocess exits and close events are bounded by the spawns.)
MaxEvents == 4

\* longest text handed to the pattern scanner, in tokens
MaxText == 5

\* ------------------------------------------------------- program constants
LOG_ROTATE_SIZE_BYTES == 1 * 1024 * 1024

\* Sizes (bytes) a delivered chunk may have: a small one, and one that alone
\* fills a segment to the rotation threshold.
ChunkSizes == {1, LOG_ROTATE_SIZE_BYTES}

VARIABLES
  tailProcess,         \* handle of the tail subprocess, NoProc when null
  logBuffer,           \* live buffer: chunks in order of arrival
  logFileStream,       \* the write stream held, NoStream when null
  currentLogPath,      \* project-relative path of the current segment
  currentLogFilePath,  \* absolute path of the current segment
  openStreams,         \* number of write streams created and not yet ended
  dirs,                \* the directory tree: directory -> (file name -> contents)
  pstate,              \* per spawned subprocess: none/running/killed/exited/closed
  now,                 \* wall clock, in whole seconds since the service started
  nchunks,             \* chunks delivered so far
  nevents,             \* starts, analyzes, chunks and clock ticks so far
  ev                   \* the last event handled, with what it saw and did

vars == <<tailProcess, logBuffer, logFileStream, currentLogPath,
          currentLogFilePath, openStreams, dirs, pstate, now, nchunks, nevents,
          ev>>

NoProc   == 0
Procs    == 1..MaxEvents

\* ------------------------------------------------------------------- paths
NullPath == [root |-> "null", name |-> <<"null", 0>>]
NoStream == [path |-> NullPath, writable |-> FALSE]
LogDir      == <<"log", 0>>          \* SF_LOG_DIR
AnalysisDir == <<"analysis", 0>>     \* SF_LOG_ANALYSIS_DIR

\* new Date().toISOString().replace(/[:.]/g,'-').slice(0,19): the time cut to
\* whole seconds.  Two events at the same value of the clock fall in the same
\* second and get the same stamp.
Stamp(t) == t

\* `apex-${timestamp}.log`
LogName(t) == <<"apex", Stamp(t)>>

\* path.join(SF_LOG_DIR, name)
FilePath(name) == [root |-> "PROJECT_DIR", name |-> name]

\* path.relative(PROJECT_DIR, p)
relative(p) == [root |-> ".", name |-> p.name]

\* ------------------------------------------------------------- file system
Restrict(f, S) == [x \in S |-> f[x]]
Merge(f, h) == [x \in DOMAIN f \cup DOMAIN h |-> IF x \in DOMAIN h THEN h[x] ELSE f[x]]
EmptyDir == <<>>

RECURSIVE FileSize(_)
FileSize(content) ==
  IF content = <<>> THEN 0 ELSE Head(content).size + FileSize(Tail(content))

existsSync(d, k) == k \in DOMAIN d

mkdirSync(d, k) == IF k \in DOMAIN d THEN d ELSE Merge(d, [x \in {k} |-> EmptyDir])

\* fs.renameSync for each name of `names`, from directory `from` to `to`
renameAll(d, from, to, names) ==
  [d EXCEPT ![to]   = Merge(d[to], Restrict(d[from], names)),
            ![from] = Restrict(d[from], DOMAIN d[from] \ names)]

\* (mutant) nothing is copied
copyAll_none(d, from, to) == d

\* fs.copyFileSync for every file of directory `from`, into `to`
copyAll(d, from, to) == [d EXCEPT ![to] = Merge(d[to], d[from])]

ensureSfLogDir(d) == IF ~existsSync(d, LogDir) THEN mkdirSync(d, LogDir) ELSE d

\* f.endsWith('.log') || f.endsWith('.log.gz')
IsLogFile(f) == f[1] \in {"apex", "tmp"}

\* (mutant) the archive directory is made without looking for log files
archiveOldLogsBeforeAudit_noCheck(d, t) ==
  IF ~existsSync(d, LogDir) THEN d
  ELSE LET logFiles == {f \in DOMAIN d[LogDir] : IsLogFile(f)}
           archiveDir == <<"old", Stamp(t)>>
       IN renameAll(mkdirSync(d, archiveDir), LogDir, archiveDir, logFiles)

archiveOldLogsBeforeAudit(d, t) ==
  IF ~existsSync(d, LogDir) THEN d
  ELSE LET logFiles == {f \in DOMAIN d[LogDir] : IsLogFile(f)}
           archiveDir == <<"old", Stamp(t)>>
       IN IF logFiles = {} THEN d
          ELSE renameAll(mkdirSync(d, archiveDir), LogDir, archiveDir, logFiles)

\* ---------------------------------------------------------------- streams
\* logFileStream?.writable
Writable(g) == g.logFileStream # NoStream /\ g.logFileStream.writable

\* logFileStream.end()
endStream(g) ==
  [g EXCEPT !.logFileStream.writable = FALSE,
            !.openStreams = IF g.logFileStream.writable THEN @ - 1 ELSE @]

\* logFileStream = fs.createWriteStream(p, { flags: 'w' }): creates the file,
\* or truncates the one already at that path
createWriteStream(g, p) ==
  [g EXCEPT !.logFileStream = [path |-> p, writable |-> TRUE],
            !.openStreams = @ + 1,
            !.dirs[LogDir] = Merge(@, [x \in {p.name} |-> <<>>])]

\* (mutant) the chunk is put at the head of the file instead of its end
streamWrite_prepend(g, c) ==
  LET f == g.logFileStream.path.name
  IN [g EXCEPT !.dirs[LogDir] = IF f \in DOMAIN @ THEN [@ EXCEPT ![f] = <<c>> \o @] ELSE @]

\* logFileStream.write(text)
streamWrite(g, c) ==
  LET f == g.logFileStream.path.name
  IN [g EXCEPT !.dirs[LogDir] = IF f \in DOMAIN @ THEN [@ EXCEPT ![f] = Append(@, c)] ELSE @]

\* -------------------------------------------------------- child processes
\* tailProcess.kill('SIGTERM'): the signal is sent and the call returns; the
\* subprocess exits later, on its own schedule
kill(ps, p) == IF ps[p] = "running" THEN [ps EXCEPT ![p] = "killed"] ELSE ps

\* launched and not yet exited
Alive(ps) == {p \in Procs : ps[p] \in {"running", "killed"}}

\* the next subprocess spawn() creates
NextProc(ps) == Cardinality({p \in Procs : ps[p] # "none"}) + 1

\* ------------------------------------------------------------ the program
\* The mutable globals and the file system as one record, so that a handler
\* is the composition of its statements.  rotations counts the rotations the
\* handler under way has performed.
Cur == [tailProcess |-> tailProcess, logBuffer |-> logBuffer,
        logFileStream |-> logFileStream, currentLogPath |-> currentLogPath,
        currentLogFilePath |-> currentLogFilePath, openStreams |-> openStreams,
        dirs |-> dirs, pstate |-> pstate, rotations |-> 0]

prepareLogsForAnalysis(g) ==
  IF Writable(g)
  THEN [endStream(g) EXCEPT !.logFileStream = NoStream, !.currentLogFilePath = NullPath]
  ELSE g

\* `.sf-log_archive_${date}_${time}`, with its main/ and analysis/ subfolders
createArchiveDir(t) == <<"arch", Stamp(t)>>
ArchMain(a)     == <<"archmain", a[2]>>
ArchAnalysis(a) == <<"archanalysis", a[2]>>

moveLogsToAnalysisFolder(g, t) ==
  LET g1 == prepareLogsForAnalysis(g)
      d1 == ensureSfLogDir(g1.dirs)
      hasAnalysisFiles == existsSync(d1, AnalysisDir) /\ DOMAIN d1[AnalysisDir] # {}
      mainFiles == DOMAIN d1[LogDir]
      hasMainFiles == mainFiles # {}
      hasArchive == hasAnalysisFiles \/ hasMainFiles
      archiveDir == createArchiveDir(t)
      d2 == IF hasArchive /\ hasAnalysisFiles
            THEN renameAll(mkdirSync(mkdirSync(d1, archiveDir), ArchAnalysis(archiveDir)),
                           AnalysisDir, ArchAnalysis(archiveDir), DOMAIN d1[AnalysisDir])
            ELSE d1
      d3 == IF ~existsSync(d2, AnalysisDir) THEN mkdirSync(d2, AnalysisDir) ELSE d2
      d4 == IF hasArchive /\ hasMainFiles
            THEN renameAll(mkdirSync(mkdirSync(d3, archiveDir), ArchMain(archiveDir)),
                           LogDir, ArchMain(archiveDir), mainFiles)
            ELSE d3
      d5 == IF hasArchive /\ existsSync(d4, ArchMain(archiveDir))
            THEN copyAll(d4, ArchMain(archiveDir), AnalysisDir)
            ELSE d4
      g2 == [g1 EXCEPT !.dirs = d5]
      logPath == FilePath(LogName(t))
  IN IF g2.tailProcess # NoProc
     THEN [createWriteStream(g2, logPath) EXCEPT !.currentLogPath = relative(logPath),
                                                 !.currentLogFilePath = logPath]
     ELSE g2

\* the /api/analyze handler up to the point where the report is produced:
\* the archive, then the temporary copy of the content handed to the agent
ReqChunk == [id |-> 0, src |-> NoProc, size |-> 1]

analyzeRequest(g, t, hasLogContent, useAgent) ==
  LET g1 == moveLogsToAnalysisFolder(g, t)
      logsOnDisk == IF existsSync(g1.dirs, AnalysisDir)
                    THEN {f \in DOMAIN g1.dirs[AnalysisDir] : IsLogFile(f)} ELSE {}
      content == IF hasLogContent THEN <<ReqChunk>> ELSE g1.logBuffer
      tmpName == <<"tmp", t>>
  IN IF logsOnDisk = {} /\ content # <<>> /\ useAgent
     THEN [g1 EXCEPT !.dirs[AnalysisDir] = Merge(@, [x \in {tmpName} |-> content])]
     ELSE g1

\* startAudit, lines 288-298: tear down whatever session there is
teardown(g) ==
  LET g1 == IF g.tailProcess # NoProc
            THEN [g EXCEPT !.pstate = kill(@, g.tailProcess), !.tailProcess = NoProc]
            ELSE g
      g2 == IF g1.logFileStream # NoStream
            THEN [endStream(g1) EXCEPT !.logFileStream = NoStream]
            ELSE g1
  IN [g2 EXCEPT !.logBuffer = <<>>, !.currentLogPath = NullPath,
                !.currentLogFilePath = NullPath]

startAudit(g, t) ==
  LET g1 == teardown(g)
      g2 == [g1 EXCEPT !.dirs = ensureSfLogDir(archiveOldLogsBeforeAudit(@, t))]
      logPath == FilePath(LogName(t))
      g3 == [g2 EXCEPT !.currentLogFilePath = logPath]
      g4 == [createWriteStream(g3, logPath) EXCEPT !.currentLogPath = relative(logPath)]
      p  == NextProc(g4.pstate)
  IN [g4 EXCEPT !.tailProcess = p, !.pstate[p] = "running"]

\* (mutant) the rotation opens the next segment and leaves the recorded file
\* path at the segment it has closed
maybeRotateLog_keepsPath(g, t) ==
  IF ~Writable(g) \/ g.currentLogFilePath = NullPath THEN g
  ELSE IF g.currentLogFilePath.name \notin DOMAIN g.dirs[LogDir] THEN g
  ELSE IF FileSize(g.dirs[LogDir][g.currentLogFilePath.name]) >= LOG_ROTATE_SIZE_BYTES
  THEN LET g1 == [endStream(g) EXCEPT !.logFileStream = NoStream]
           newPath == FilePath(LogName(t))
       IN [createWriteStream(g1, newPath) EXCEPT !.currentLogPath = relative(newPath),
                                                 !.rotations = @ + 1]
  ELSE g

\* (mutant) the rotation opens the new segment without ending the old stream
maybeRotateLog_noEnd(g, t) ==
  IF ~Writable(g) \/ g.currentLogFilePath = NullPath THEN g
  ELSE IF g.currentLogFilePath.name \notin DOMAIN g.dirs[LogDir] THEN g
  ELSE IF FileSize(g.dirs[LogDir][g.currentLogFilePath.name]) >= LOG_ROTATE_SIZE_BYTES
  THEN LET newPath == FilePath(LogName(t))
           g2 == [g EXCEPT !.currentLogFilePath = newPath]
       IN [createWriteStream(g2, newPath) EXCEPT !.currentLogPath = relative(newPath),
                                                 !.rotations = @ + 1]
  ELSE g

\* (mutant) the rotation waits until the segment is over the threshold
maybeRotateLog_over(g, t) ==
  IF ~Writable(g) \/ g.currentLogFilePath = NullPath THEN g
  ELSE IF g.currentLogFilePath.name \notin DOMAIN g.dirs[LogDir] THEN g
  ELSE IF FileSize(g.dirs[LogDir][g.currentLogFilePath.name]) > LOG_ROTATE_SIZE_BYTES
  THEN LET g1 == [endStream(g) EXCEPT !.logFileStream = NoStream]
           newPath == FilePath(LogName(t))
           g2 == [g1 EXCEPT !.currentLogFilePath = newPath]
       IN [createWriteStream(g2, newPath) EXCEPT !.currentLogPath = relative(newPath),
                                                 !.rotations = @ + 1]
  ELSE g

maybeRotateLog(g, t) ==
  IF ~Writable(g) \/ g.currentLogFilePath = NullPath THEN g
  ELSE IF g.currentLogFilePath.name \notin DOMAIN g.dirs[LogDir] THEN g
  ELSE IF FileSize(g.dirs[LogDir][g.currentLogFilePath.name]) >= LOG_ROTATE_SIZE_BYTES
  THEN LET g1 == [endStream(g) EXCEPT !.logFileStream = NoStream]
           newPath == FilePath(LogName(t))
           g2 == [g1 EXCEPT !.currentLogFilePath = newPath]
       IN [createWriteStream(g2, newPath) EXCEPT !.currentLogPath = relative(newPath),
                                                 !.rotations = @ + 1]
  ELSE g

\* (mutant) the chunk is written without the rotation check
write_noCheck(g, c, t) ==
  LET g1 == [g EXCEPT !.logBuffer = Append(@, c)]
  IN IF Writable(g1) THEN streamWrite(g1, c) ELSE g1

write(g, c, t) ==
  LET g1 == [g EXCEPT !.logBuffer = Append(@, c)]
  IN IF Writable(g1)
     THEN LET g2 == maybeRotateLog(g1, t)
          IN IF Writable(g2) THEN streamWrite(g2, c) ELSE g2
     ELSE g1

\* (mutant) the close handler forgets the writer
onClose_keepsWriter(g) == [g EXCEPT !.tailProcess = NoProc]

\* tailProcess.on('close', ...), lines 340-346
onClose(g) ==
  LET g1 == [g EXCEPT !.tailProcess = NoProc]
  IN IF g1.logFileStream # NoStream
     THEN [endStream(g1) EXCEPT !.logFileStream = NoStream]
     ELSE g1

\* (mutant) stop signals the subprocess and leaves the writer open
stopAudit_keepsWriter(g) ==
  IF g.tailProcess # NoProc
  THEN [g EXCEPT !.pstate = kill(@, g.tailProcess), !.tailProcess = NoProc]
  ELSE g

\* (mutant) stop also forgets the path of the last segment
stopAudit_clearsPath(g) ==
  LET g1 == IF g.tailProcess # NoProc
            THEN [g EXCEPT !.pstate = kill(@, g.tailProcess), !.tailProcess = NoProc]
            ELSE g
      g2 == IF g1.logFileStream # NoStream
            THEN [endStream(g1) EXCEPT !.logFileStream = NoStream]
            ELSE g1
  IN [g2 EXCEPT !.currentLogPath = NullPath]

stopAudit(g) ==
  LET g1 == IF g.tailProcess # NoProc
            THEN [g EXCEPT !.pstate = kill(@, g.tailProcess), !.tailProcess = NoProc]
            ELSE g
  IN IF g1.logFileStream # NoStream
     THEN [endStream(g1) EXCEPT !.logFileStream = NoStream]
     ELSE g1

\* return { ok: true, org: ..., logPath: currentLogPath } of startAudit; the
\* org echoed back is left out
startResult(g) == [ok |-> TRUE, logPath |-> g.currentLogPath]

\* return { ok: true, logPath: currentLogPath } of stopAudit
stopResult(g) == [ok |-> TRUE, logPath |-> g.currentLogPath]

NoResult == [ok |-> FALSE, logPath |-> NullPath]

\* ---------------------------------------------------------- pattern scanner
\* A text is a sequence of tokens: the line break, a word character, a blank,
\* and the literals the patterns look for.
NL == "\n"
Literals == {"|EXCEPTION_THROWN", "|FATAL_ERROR", "|UNHANDLED_EXCEPTION",
             "|VALIDATION_FAIL", "|VALIDATION_FORMULA", "|LIMIT_USAGE",
             "System.LimitException", "System.Exception", "NullPointerException"}

\* the token starts with a character of the class \w
IsWordStart(tok) ==
  tok \in {"x", "System.LimitException", "System.Exception", "NullPointerException"}

\* number of characters of a token
CharLen(tok) ==
  CASE tok = "|EXCEPTION_THROWN"     -> 17
    [] tok = "|FATAL_ERROR"          -> 12
    [] tok = "|UNHANDLED_EXCEPTION"  -> 20
    [] tok = "|VALIDATION_FAIL"      -> 16
    [] tok = "|VALIDATION_FORMULA"   -> 19
    [] tok = "|LIMIT_USAGE"          -> 12
    [] tok = "System.LimitException" -> 21
    [] tok = "System.Exception"      -> 16
    [] tok = "NullPointerException"  -> 20
    [] OTHER                         -> 1

\* a pattern: the literal it looks for, whether the literal must not be
\* followed by a word character ((?!\w)), its label as the words between the
\* underscores, its severity
Rule(token, lookahead, label, severity) ==
  [token |-> token, lookahead |-> lookahead, label |-> label, severity |-> severity]

ERROR_PATTERNS ==
  << Rule("|EXCEPTION_THROWN",     TRUE,  <<"EXCEPTION", "THROWN">>,     "error"),
     Rule("|FATAL_ERROR",          TRUE,  <<"FATAL", "ERROR">>,          "error"),
     Rule("|UNHANDLED_EXCEPTION",  TRUE,  <<"UNHANDLED", "EXCEPTION">>,  "error"),
     Rule("|VALIDATION_FAIL",      TRUE,  <<"VALIDATION", "FAIL">>,      "error"),
     Rule("|VALIDATION_FORMULA",   TRUE,  <<"VALIDATION", "FORMULA">>,   "warning"),
     Rule("|LIMIT_USAGE",          TRUE,  <<"LIMIT", "USAGE">>,          "warning"),
     Rule("System.LimitException", FALSE, <<"LIMIT", "EXCEPTION">>,      "error"),
     Rule("System.Exception",      FALSE, <<"SYSTEM", "EXCEPTION">>,     "error"),
     Rule("NullPointerException",  FALSE, <<"NULL", "POINTER">>,         "error") >>

\* re.test(line)
test(rule, line) ==
  \E i \in 1..Len(line) :
    /\ line[i] = rule.token
    /\ rule.lookahead => (i = Len(line) \/ ~IsWordStart(line[i + 1]))

\* logContent.split('\n')
RECURSIVE split(_)
split(text) ==
  IF \A i \in 1..Len(text) : text[i] # NL THEN <<text>>
  ELSE LET i == CHOOSE j \in 1..Len(text) :
                  text[j] = NL /\ \A k \in 1..(j - 1) : text[k] # NL
       IN <<SubSeq(text, 1, i - 1)>> \o split(SubSeq(text, i + 1, Len(text)))

\* line.trim()
RECURSIVE trim(_)
trim(line) ==
  IF line = <<>> THEN line
  ELSE IF Head(line) = " " THEN trim(Tail(line))
  ELSE IF line[Len(line)] = " " THEN trim(SubSeq(line, 1, Len(line) - 1))
  ELSE line

Max(a, b) == IF a >= b THEN a ELSE b
Min(a, b) == IF a <= b THEN a ELSE b

\* array.slice(from, to), indices counted from 0
slice(array, from, to) == SubSeq(array, from + 1, to)

\* array.join('\n')
RECURSIVE join(_)
join(array) ==
  IF array = <<>> THEN <<>>
  ELSE IF Len(array) = 1 THEN array[1]
  ELSE array[1] \o <<NL>> \o join(Tail(array))

\* label.includes(word) for a word that holds no underscore
includes(label, word) == \E i \in 1..Len(label) : label[i] = word

\* (mutant) the last rule that matches the line, 0 when none does
RECURSIVE firstMatch_last(_, _)
firstMatch_last(line, k) ==
  IF k > Len(ERROR_PATTERNS) THEN 0
  ELSE LET later == firstMatch_last(line, k + 1)
       IN IF later # 0 THEN later
          ELSE IF test(ERROR_PATTERNS[k], line) THEN k ELSE 0

\* the inner loop with its break: the first rule from the k-th on that
\* matches the line, 0 when none does
RECURSIVE firstMatch(_, _)
firstMatch(line, k) ==
  IF k > Len(ERROR_PATTERNS) THEN 0
  ELSE IF test(ERROR_PATTERNS[k], line) THEN k
  ELSE firstMatch(line, k + 1)

\* (mutant) the window reaches two lines back
ctxBefore_two(lines, i) == join(slice(lines, Max(0, i - 2), i))

\* lines.slice(Math.max(0, i - 1), i).join('\n')
ctxBefore(lines, i) == join(slice(lines, Max(0, i - 1), i))

\* lines.slice(i + 1, Math.min(lines.length, i + 2)).join('\n')
ctxAfter(lines, i) == join(slice(lines, i + 1, Min(Len(lines), i + 2)))

\* `${ctxBefore}\n>>> ${line} <<<\n${ctxAfter}`
context(lines, i) ==
  ctxBefore(lines, i) \o <<NL, ">>> ">> \o lines[i + 1] \o <<" <<<", NL>> \o ctxAfter(lines, i)

\* errorTypes.add(label): a Set keeps the order of first insertion
add(types, label) ==
  IF \E k \in 1..Len(types) : types[k] = label THEN types ELSE Append(types, label)

\* the outer loop from line i (counted from 0) on
RECURSIVE scanLines(_, _, _)
scanLines(lines, i, acc) ==
  IF i >= Len(lines) THEN acc
  ELSE LET line == lines[i + 1]
           k == firstMatch(line, 1)
       IN IF k = 0 THEN scanLines(lines, i + 1, acc)
          ELSE scanLines(lines, i + 1,
                 [errors |-> Append(acc.errors,
                                [line |-> trim(line),
                                 type |-> ERROR_PATTERNS[k].label,
                                 severity |-> ERROR_PATTERNS[k].severity,
                                 context |-> context(lines, i)]),
                  errorTypes |-> add(acc.errorTypes, ERROR_PATTERNS[k].label)])

\* number of characters of a line
RECURSIVE length(_)
length(line) == IF line = <<>> THEN 0 ELSE CharLen(Head(line)) + length(Tail(line))

DisplayMax == 100

\* `[${i + 1}] ${e.type}: ${e.line.slice(0, 100)}${e.line.length > 100 ? '…' : ''}`
entry(errors, n) ==
  <<"entry", n, errors[n].type,
    [of |-> errors[n].line, chars |-> Min(length(errors[n].line), DisplayMax),
     ellipsis |-> length(errors[n].line) > DisplayMax]>>

\* the suggestions, in the order the report appends them
Apex == <<"bullet", "Apex: Add try/catch">>
Validation == <<"bullet", "Validation: Check rule formula">>
Limits == <<"bullet", "Limits: Optimize SOQL/DML">>

\* (mutant) one suggestion for every finding of the category
RECURSIVE quickFixes_perFinding(_)
quickFixes_perFinding(errors) ==
  IF errors = <<>> THEN <<>>
  ELSE (IF includes(Head(errors).type, "VALIDATION") THEN <<Validation>> ELSE <<>>)
       \o (IF includes(Head(errors).type, "EXCEPTION") \/ Head(errors).type = <<"FATAL">>
            THEN <<Apex>> ELSE <<>>)
       \o (IF includes(Head(errors).type, "LIMIT") THEN <<Limits>> ELSE <<>>)
       \o quickFixes_perFinding(Tail(errors))

\* lines 87-89
quickFixes(errors) ==
  LET validation(e) == includes(e.type, "VALIDATION")
      exception(e) == includes(e.type, "EXCEPTION") \/ e.type = <<"FATAL">>
      limit(e) == includes(e.type, "LIMIT")
      some(es, P(_)) == \E n \in 1..Len(es) : P(es[n])
  IN (IF some(errors, validation) THEN <<Validation>> ELSE <<>>)
     \o (IF some(errors, exception) THEN <<Apex>> ELSE <<>>)
     \o (IF some(errors, limit) THEN <<Limits>> ELSE <<>>)

NoErrors == <<"No errors detected.">>

\* analyzeLogs: the report as the sequence of the parts the string is built
\* from, and the findings
analyzeLogs(logContent) ==
  LET lines == split(logContent)
      found == scanLines(lines, 0, [errors |-> <<>>, errorTypes |-> <<>>])
      errors == found.errors
      summary == IF Len(errors) = 0 THEN <<NoErrors>>
                 ELSE <<<<"Found", Len(errors), found.errorTypes>>, <<"--- Errors ---">>>>
                      \o [n \in 1..Len(errors) |-> entry(errors, n)]
      report == IF Len(errors) > 0
                THEN summary \o <<<<"--- Quick fixes ---">>>> \o quickFixes(errors)
                ELSE summary
  IN [report |-> report, errors |-> errors]

\* the answer of a request that has not run the scanner
NoReport == [report |-> <<>>, errors |-> <<>>]

\* ----------------------------------------------------------------- actions
Commit(g) ==
  /\ tailProcess' = g.tailProcess
  /\ logBuffer' = g.logBuffer
  /\ logFileStream' = g.logFileStream
  /\ currentLogPath' = g.currentLogPath
  /\ currentLogFilePath' = g.currentLogFilePath
  /\ openStreams' = g.openStreams
  /\ dirs' = g.dirs
  /\ pstate' = g.pstate

\* size of the file the open writer writes to, 0 when there is none
SegSize(g) ==
  IF Writable(g) /\ g.logFileStream.path.name \in DOMAIN g.dirs[LogDir]
  THEN FileSize(g.dirs[LogDir][g.logFileStream.path.name]) ELSE 0

\* log files of the primary directory, {} when the directory is missing
MainFiles(d) == IF existsSync(d, LogDir) THEN {f \in DOMAIN d[LogDir] : IsLogFile(f)} ELSE {}

\* files of the analysis directory, {} when the directory is missing
AnalysisFiles(d) == IF existsSync(d, AnalysisDir) THEN DOMAIN d[AnalysisDir] ELSE {}

\* What the last handler did: its input, what it found (the session and the
\* file system before it ran, the clock) and what it returned.  again: the
\* handler is an /api/analyze that follows an /api/analyze which found log
\* files in the primary directory, with nothing but time between the two.
\* agent, sent: the state of the agent process of the /api/analyze request
\* that waits for it, and the number of responses sent to that request; they
\* outlive the handlers that run in between.
EventOf(op, p, g, h, c, again) ==
  [op |-> op, proc |-> p, chunk |-> c,
   prevProc |-> g.tailProcess,
   hadStream |-> Writable(g),
   sizeBefore |-> SegSize(g),
   prevPath |-> g.logFileStream.path,
   rotations |-> h.rotations,
   wrote |-> op = "data" /\ Writable(h),
   bufferKept |-> h.logBuffer = g.logBuffer,
   unchanged |-> h = g,
   dirsBefore |-> g.dirs,
   at |-> now,
   again |-> again,
   fault |-> "none",
   crashed |-> FALSE,
   content |-> <<>>,
   scan |-> NoReport,
   source |-> "none",
   agent |-> "none",
   sent |-> 0,
   ret |-> IF op = "start" THEN startResult(h)
           ELSE IF op = "stop" THEN stopResult(h)
           ELSE NoResult]

Event(op, p, g, h, c) ==
  [EventOf(op, p, g, h, c,
           /\ op = "analyze"
           /\ ev.op = "analyze"
           /\ MainFiles(ev.dirsBefore) # {})
     EXCEPT !.agent = ev.agent, !.sent = ev.sent]

NoChunk == [id |-> 0, src |-> NoProc, size |-> 0]

Init ==
  /\ tailProcess = NoProc
  /\ logBuffer = <<>>
  /\ logFileStream = NoStream
  /\ currentLogPath = NullPath
  /\ currentLogFilePath = NullPath
  /\ openStreams = 0
  /\ dirs = [k \in {} |-> EmptyDir]
  /\ pstate = [p \in Procs |-> "none"]
  /\ now = 0
  /\ nchunks = 0
  /\ nevents = 0
  /\ ev = EventOf("init", NoProc, Cur, Cur, NoChunk, FALSE)

\* POST /api/start
StartAudit ==
  /\ nevents < MaxEvents
  /\ LET h == startAudit(Cur, now)
     IN /\ Commit(h)
        /\ ev' = Event("start", h.tailProcess, Cur, h, NoChunk)
  /\ nevents' = nevents + 1
  /\ UNCHANGED <<now, nchunks>>

\* POST /api/stop
StopAudit ==
  /\ LET h == stopAudit(Cur)
     IN /\ Commit(h)
        /\ ev' = Event("stop", tailProcess, Cur, h, NoChunk)
  /\ UNCHANGED <<now, nchunks, nevents>>

\* a 'data' event of subprocess p's stdout or stderr: output may still be
\* delivered after the signal and after the exit, until 'close'
OnData(p, n) ==
  /\ pstate[p] \in {"running", "killed", "exited"}
  /\ nevents < MaxEvents
  /\ LET c == [id |-> nchunks + 1, src |-> p, size |-> n]
         h == write(Cur, c, now)
     IN /\ Commit(h)
        /\ ev' = Event("data", p, Cur, h, c)
  /\ nchunks' = nchunks + 1
  /\ nevents' = nevents + 1
  /\ UNCHANGED now

\* subprocess p exits: on its own, or having received the signal
Exit(p) ==
  /\ pstate[p] \in {"running", "killed"}
  /\ pstate' = [pstate EXCEPT ![p] = "exited"]
  /\ ev' = Event(IF pstate[p] = "running" THEN "exit" ELSE "exitKilled", p, Cur, Cur, NoChunk)
  /\ UNCHANGED <<tailProcess, logBuffer, logFileStream, currentLogPath,
                 currentLogFilePath, openStreams, dirs, now, nchunks, nevents>>

\* the 'close' event of subprocess p is delivered
OnClose(p) ==
  /\ pstate[p] = "exited"
  /\ LET h == onClose([Cur EXCEPT !.pstate[p] = "closed"])
     IN /\ Commit(h)
        /\ ev' = Event("close", p, Cur, h, NoChunk)
  /\ UNCHANGED <<now, nchunks, nevents>>

\* POST /api/analyze
Analyze(hasLogContent, useAgent) ==
  /\ nevents < MaxEvents
  /\ LET h == analyzeRequest(Cur, now, hasLogContent, useAgent)
     IN /\ Commit(h)
        /\ ev' = Event("analyze", tailProcess, Cur, h, NoChunk)
  /\ nevents' = nevents + 1
  /\ UNCHANGED <<now, nchunks>>

\* a second passes: no handler runs
Tick ==
  /\ nevents < MaxEvents
  /\ now' = now + 1
  /\ nevents' = nevents + 1
  /\ UNCHANGED <<tailProcess, logBuffer, logFileStream, currentLogPath,
                 currentLogFilePath, openStreams, dirs, pstate, nchunks, ev>>

Next ==
  \/ StartAudit
  \/ StopAudit
  \/ \E p \in Procs, n \in ChunkSizes : OnData(p, n)
  \/ \E p \in Procs : Exit(p)
  \/ \E p \in Procs : OnClose(p)
  \/ \E a \in BOOLEAN, b \in BOOLEAN : Analyze(a, b)
  \/ Tick

Spec == Init /\ [][Next]_vars

\* the event loop delivers every pending 'close' event
FairSpec == Spec /\ \A p \in Procs : WF_vars(OnClose(p))

\* ------------------------------------------------- the scanner on its own
\* analyzeLogs applied to every text of up to MaxText tokens
Tokens == {NL, "x", " ", "|EXCEPTION_THROWN", "|FATAL_ERROR", "|VALIDATION_FORMULA",
           "System.LimitException", "NullPointerException"}

Texts == UNION {[1..n -> Tokens] : n \in 0..MaxText}

ScanInit ==
  /\ tailProcess = NoProc
  /\ logBuffer = <<>>
  /\ logFileStream = NoStream
  /\ currentLogPath = NullPath
  /\ currentLogFilePath = NullPath
  /\ openStreams = 0
  /\ dirs = [k \in {} |-> EmptyDir]
  /\ pstate = [p \in Procs |-> "none"]
  /\ now = 0
  /\ nchunks = 0
  /\ nevents = 0
  /\ \E text \in Texts :
       ev = [EventOf("init", NoProc, Cur, Cur, NoChunk, FALSE) EXCEPT !.content = text]

\* const { report, errors } = analyzeLogs(content)
Scan ==
  /\ ev.op = "init"
  /\ ev' = [ev EXCEPT !.op = "scan", !.scan = analyzeLogs(ev.content)]
  /\ UNCHANGED <<tailProcess, logBuffer, logFileStream, currentLogPath,
                 currentLogFilePath, openStreams, dirs, pstate, now, nchunks, nevents>>

ScanSpec == ScanInit /\ [][Scan]_vars

\* ------------------------------------------------------------------ faults
\* The same service with the failures of its environment as inputs: the sf
\* tool missing, a segment that cannot be opened, a file that cannot be
\* moved.

\* fs.createWriteStream(p) on a path that cannot be opened: the call returns
\* the stream, the file is not created, and the failed open is reported
\* later as the stream's 'error' event
createWriteStreamFailing(g, p) ==
  [g EXCEPT !.logFileStream = [path |-> p, writable |-> TRUE],
            !.openStreams = @ + 1]

\* the open of the writer's file has failed and its 'error' event is due
ErrorPending(g) ==
  /\ Writable(g)
  /\ ~(existsSync(g.dirs, LogDir) /\ g.logFileStream.path.name \in DOMAIN g.dirs[LogDir])

\* startAudit when the segment cannot be opened.  thrown: createWriteStream
\* throws and the catch clause of line 308 runs; otherwise the stream is
\* handed out and fails afterwards.
startAuditOpenFails(g, t, thrown) ==
  LET g1 == teardown(g)
      g2 == [g1 EXCEPT !.dirs = ensureSfLogDir(archiveOldLogsBeforeAudit(@, t))]
      logPath == FilePath(LogName(t))
      g3 == [g2 EXCEPT !.currentLogFilePath = logPath]
      g4 == IF thrown THEN g3
            ELSE [createWriteStreamFailing(g3, logPath) EXCEPT !.currentLogPath = relative(logPath)]
      p  == NextProc(g4.pstate)
  IN [g4 EXCEPT !.tailProcess = p, !.pstate[p] = "running"]

\* archiveOldLogsBeforeAudit when fs.renameSync fails on the file bad, the
\* files of done having been moved before it: nothing catches the exception
archiveOldLogsBeforeAuditFails(d, t, done) ==
  renameAll(mkdirSync(d, <<"old", Stamp(t)>>), LogDir, <<"old", Stamp(t)>>, done)

\* startAudit up to the exception thrown by archiveOldLogsBeforeAudit
startAuditMoveFails(g, t, done) ==
  [teardown(g) EXCEPT !.dirs = archiveOldLogsBeforeAuditFails(@, t, done)]

\* the service process is up
Up == ~ev.crashed

\* POST /api/start with the sf tool not installed: spawn() starts the shell,
\* which reports the missing command on stderr and exits
StartAuditToolMissing ==
  /\ Up
  /\ nevents < MaxEvents
  /\ LET h == startAudit(Cur, now)
     IN /\ Commit(h)
        /\ ev' = [Event("start", h.tailProcess, Cur, h, NoChunk) EXCEPT !.fault = "toolMissing"]
  /\ nevents' = nevents + 1
  /\ UNCHANGED <<now, nchunks>>

\* POST /api/start with a segment that cannot be opened
StartAuditOpenFails(thrown) ==
  /\ Up
  /\ nevents < MaxEvents
  /\ LET h == startAuditOpenFails(Cur, now, thrown)
     IN /\ Commit(h)
        /\ ev' = [Event("start", h.tailProcess, Cur, h, NoChunk) EXCEPT !.fault = "open"]
  /\ nevents' = nevents + 1
  /\ UNCHANGED <<now, nchunks>>

\* the 'error' event of the stream whose open failed: the stream has no
\* 'error' listener, the event is rethrown and the service process ends
StreamError ==
  /\ Up
  /\ ErrorPending(Cur)
  /\ ev' = [ev EXCEPT !.op = "streamError", !.crashed = TRUE]
  /\ UNCHANGED <<tailProcess, logBuffer, logFileStream, currentLogPath,
                 currentLogFilePath, openStreams, dirs, pstate, now, nchunks, nevents>>

\* POST /api/start with a log file of the primary directory that cannot be
\* moved: the exception leaves startAudit and the request's 'end' callback,
\* and the service process ends
StartAuditMoveFails(bad, done) ==
  /\ Up
  /\ nevents < MaxEvents
  /\ bad \in MainFiles(dirs)
  /\ done \subseteq MainFiles(dirs) \ {bad}
  /\ LET h == startAuditMoveFails(Cur, now, done)
     IN /\ Commit(h)
        /\ ev' = [Event("start", NoProc, Cur, h, NoChunk)
                    EXCEPT !.fault = "move", !.crashed = TRUE, !.ret = NoResult]
  /\ nevents' = nevents + 1
  /\ UNCHANGED <<now, nchunks>>

\* the content of the request that is handed to the agent
ReqText == <<"x", NL, "|FATAL_ERROR">>

\* POST /api/analyze, lines 423-457.  A request that carries logContent and
\* asks for the agent hands it to analyzeWithCursorAgent, and outcome is what
\* that finds: the prompt file missing (the callback is called at once and
\* the regex report is sent), the agent process spawned, or the spawn failed
\* ('error' is due).  Any other request is answered as in Analyze.
AnalyzeWithAgent(hasLogContent, useAgent, outcome) ==
  /\ Up
  /\ nevents < MaxEvents
  /\ (outcome = "none") <=> ~(hasLogContent /\ useAgent)
  /\ outcome # "none" => ev.agent = "none"
  /\ LET h == analyzeRequest(Cur, now, hasLogContent, useAgent)
         missing == outcome = "promptMissing"
     IN /\ Commit(h)
        /\ ev' = [Event("analyze", tailProcess, Cur, h, NoChunk)
                    EXCEPT !.content = IF outcome = "none" THEN @ ELSE ReqText,
                           !.fault = IF missing THEN "agent" ELSE @,
                           !.agent = IF outcome \in {"spawned", "failed"} THEN outcome ELSE @,
                           !.sent = IF missing THEN 1 ELSE IF outcome = "none" THEN @ ELSE 0,
                           !.source = IF missing THEN "regex" ELSE @,
                           !.scan = IF missing THEN analyzeLogs(ReqText) ELSE @]
  /\ nevents' = nevents + 1
  /\ UNCHANGED <<now, nchunks>>

\* send(data) for the request that waits for the agent: res.writeHead
\* throws when the response has been sent already, and nothing catches it
sendAgain(e, source, scan) ==
  IF e.sent >= 1
  THEN [e EXCEPT !.crashed = TRUE]
  ELSE [e EXCEPT !.sent = 1, !.source = source, !.scan = scan]

\* proc.on('error'): the agent could not be launched
AgentError ==
  /\ Up
  /\ ev.agent = "failed"
  /\ ev' = sendAgain([ev EXCEPT !.op = "agentError", !.fault = "agent", !.agent = "errored"],
                     "regex", analyzeLogs(ReqText))
  /\ UNCHANGED <<tailProcess, logBuffer, logFileStream, currentLogPath,
                 currentLogFilePath, openStreams, dirs, pstate, now, nchunks, nevents>>

\* proc.on('close'): emitted when the agent process has ended, and also after
\* 'error' when it could not be launched (then with a code that is not 0)
AgentClose(ok) ==
  /\ Up
  /\ ev.agent \in {"spawned", "errored"}
  /\ ev.agent = "errored" => ~ok
  /\ ev' = IF ok
           THEN sendAgain([ev EXCEPT !.op = "agentClose", !.fault = "none", !.agent = "none"],
                          "cursor-agent", NoReport)
           ELSE sendAgain([ev EXCEPT !.op = "agentClose", !.fault = "agent", !.agent = "none"],
                          "regex", analyzeLogs(ReqText))
  /\ UNCHANGED <<tailProcess, logBuffer, logFileStream, currentLogPath,
                 currentLogFilePath, openStreams, dirs, pstate, now, nchunks, nevents>>

FileNames == {LogName(t) : t \in 0..MaxEvents}

FaultNext ==
  \/ Up /\ StartAudit
  \/ Up /\ StopAudit
  \/ Up /\ \E p \in Procs, n \in ChunkSizes : OnData(p, n)
  \/ Up /\ \E p \in Procs : Exit(p)
  \/ Up /\ \E p \in Procs : OnClose(p)
  \/ Up /\ \E a \in BOOLEAN, b \in BOOLEAN : Analyze(a, b)
  \/ Up /\ Tick
  \/ StartAuditToolMissing
  \/ \E thrown \in BOOLEAN : StartAuditOpenFails(thrown)
  \/ StreamError
  \/ \E bad \in FileNames, done \in SUBSET FileNames : StartAuditMoveFails(bad, done)

FaultSpec == Init /\ [][FaultNext]_vars

\* the service with the external agent and its failures
AgentNext ==
  \/ Up /\ StartAudit
  \/ Up /\ StopAudit
  \/ Up /\ \E p \in Procs, n \in ChunkSizes : OnData(p, n)
  \/ Up /\ \E p \in Procs : Exit(p)
  \/ Up /\ \E p \in Procs : OnClose(p)
  \/ Up /\ Tick
  \/ \E a \in BOOLEAN, b \in BOOLEAN, outcome \in {"none", "promptMissing", "spawned", "failed"} :
       AnalyzeWithAgent(a, b, outcome)
  \/ AgentError
  \/ \E ok \in BOOLEAN : AgentClose(ok)

AgentSpec == Init /\ [][AgentNext]_vars

\* ------------------------------------------------------- model soundness
\* Files are renamed only after the stream writing them has been ended, so
\* the file of a writable stream is always found at the stream's path.
OpenSegmentInPlace ==
  Writable(Cur) => /\ existsSync(dirs, LogDir)
                   /\ logFileStream.path.name \in DOMAIN dirs[LogDir]

TypeOK ==
  /\ tailProcess \in Procs \cup {NoProc}
  /\ openStreams \in 0..MaxEvents
  /\ pstate \in [Procs -> {"none", "running", "killed", "exited", "closed"}]
  /\ now \in 0..MaxEvents /\ nchunks \in 0..MaxEvents /\ nevents \in 0..MaxEvents

\* ------------------------------------------------------------------ claims
Threshold == LOG_ROTATE_SIZE_BYTES
Idle(g) == g.tailProcess = NoProc /\ g.logFileStream = NoStream

\* C1: in every reachable state at most one tail subprocess is alive
\* (launched and not yet exited).
C1_AtMostOneAlive == Cardinality(Alive(pstate)) <= 1

\* C2: right after a start issued while a session was running, exactly one
\* subprocess is live and it is the one the session holds, and exactly one
\* segment is writable.  A subprocess that was sent SIGTERM is counted as
\* terminated here even before it has exited.
C2_RestartLeavesOne ==
  (ev.op = "start" /\ ev.prevProc # NoProc) =>
     /\ {p \in Procs : pstate[p] = "running"} = {tailProcess}
     /\ tailProcess = ev.proc
     /\ Writable(Cur)
     /\ openStreams = 1

\* C3: at most one segment is writable at any time, it is the one the session
\* holds, and a file of the primary directory that is not the segment being
\* written keeps its contents for as long as it stays there.
C3_ClosedKeep ==
  existsSync(dirs, LogDir) =>
    \A f \in DOMAIN dirs[LogDir] :
       (f \in DOMAIN dirs'[LogDir] /\ ~(Writable(Cur)' /\ logFileStream'.path.name = f))
          => dirs'[LogDir][f] = dirs[LogDir][f]

C4_CrossingWriteRotates ==
  (ev.op = "data" /\ ev.hadStream /\ ev.sizeBefore < Threshold
     /\ ev.sizeBefore + ev.chunk.size >= Threshold)
  => (ev.rotations = 1 /\ SegSize(Cur) = ev.chunk.size)

\* C4 amended: a write that finds the segment at or above the threshold
\* causes exactly one rotation and is the only content of the new segment
\* (its size is N); a write that finds it below the threshold causes no
\* rotation and is appended to that segment, also when it takes the size to
\* or over the threshold.
C4_RotateOnNextWrite ==
  (ev.op = "data" /\ ev.hadStream) =>
     /\ ev.sizeBefore >= Threshold =>
          /\ ev.rotations = 1
          /\ Writable(Cur)
          /\ dirs[LogDir][logFileStream.path.name] = <<ev.chunk>>
          /\ SegSize(Cur) = ev.chunk.size
     /\ ev.sizeBefore < Threshold =>
          /\ ev.rotations = 0
          /\ logFileStream.path = ev.prevPath
          /\ SegSize(Cur) = ev.sizeBefore + ev.chunk.size

C4_Witness ==
  /\ ev.op = "data" /\ ev.hadStream
  /\ ev.sizeBefore >= Threshold /\ ev.rotations = 1
  /\ SegSize(Cur) = ev.chunk.size

\* C5: the rotation check precedes every write: the segment a chunk is
\* appended to was below the threshold at that moment, and the chunk is in
\* that one segment whole and in no other file of the primary directory.
C5_CheckBeforeWrite ==
  (ev.op = "data" /\ ev.wrote) =>
     LET f == logFileStream.path.name
         content == dirs[LogDir][f]
     IN /\ content # <<>>
        /\ content[Len(content)] = ev.chunk
        /\ FileSize(SubSeq(content, 1, Len(content) - 1)) < Threshold
        /\ \A k \in DOMAIN dirs[LogDir] \ {f} :
              \A i \in 1..Len(dirs[LogDir][k]) : dirs[LogDir][k][i] # ev.chunk

C5_Witness ==
  /\ ev.op = "data" /\ ev.wrote /\ ev.rotations = 1
  /\ ev.sizeBefore >= Threshold

\* C6: a rotation opens a segment at a path other than that of the segment
\* it closed.
C6_RotationPathDistinct ==
  (ev.op = "data" /\ ev.rotations >= 1) => logFileStream.path # ev.prevPath

\* C7: chunks keep their order of arrival: the live buffer holds exactly the
\* chunks received since the session started, in order, and on disk every
\* file holds its chunks in order of arrival and a segment created earlier
\* holds only chunks that arrived before those of a segment created later.
Ordered(content) ==
  \A i \in 1..Len(content), j \in 1..Len(content) :
     i < j => content[i].id < content[j].id

\* directories that hold segments themselves, not copies of them
SegmentDirs == {k \in DOMAIN dirs : k[1] \in {"log", "old", "archmain"}}

\* segment f of directory k was created before segment h of directory l
CreatedBefore(k, f, l, h) ==
  \/ f[2] < h[2]
  \/ f[2] = h[2] /\ k # LogDir /\ l = LogDir

C7_WritesOrdered ==
  /\ Ordered(logBuffer)
  /\ \A i \in 1..Len(logBuffer) : logBuffer[i].id = nchunks - Len(logBuffer) + i
  /\ \A k \in DOMAIN dirs : \A f \in DOMAIN dirs[k] : Ordered(dirs[k][f])
  /\ \A k \in SegmentDirs, l \in SegmentDirs :
       \A f \in DOMAIN dirs[k], h \in DOMAIN dirs[l] :
          (f[1] = "apex" /\ h[1] = "apex" /\ CreatedBefore(k, f, l, h)) =>
             \A i \in 1..Len(dirs[k][f]), j \in 1..Len(dirs[l][h]) :
                dirs[k][f][i].id < dirs[l][h][j].id

C7_Witness ==
  /\ Len(logBuffer) >= 2
  /\ \E f \in DOMAIN dirs[LogDir], h \in DOMAIN dirs[LogDir] :
        f[2] < h[2] /\ Len(dirs[LogDir][f]) >= 1 /\ Len(dirs[LogDir][h]) >= 1

\* C8: once the subprocess the session holds has exited on its own, the
\* session comes back to idle: no subprocess handle and no open writer.
C8_ExitLeadsToIdle ==
  (tailProcess # NoProc /\ pstate[tailProcess] = "exited") ~> Idle(Cur)

C8_Witness ==
  /\ ev.op = "close" /\ ev.prevProc = ev.proc /\ ev.hadStream
  /\ Idle(Cur) /\ openStreams = 0

\* C9 as stated: after stop(), and after the close of the session's own
\* subprocess, the handle is none, no segment is open and the live buffer is
\* empty.
OwnExit == ev.op = "close" /\ ev.prevProc = ev.proc

C9_FullyCleared ==
  (ev.op = "stop" \/ OwnExit) =>
     (tailProcess = NoProc /\ logFileStream = NoStream /\ logBuffer = <<>>)

\* C9 amended: after stop(), and after the close of the session's own
\* subprocess, the handle is none and no segment is open; the live buffer is
\* left as it was.
C9_ClearedButBuffer ==
  (ev.op = "stop" \/ OwnExit) =>
     /\ tailProcess = NoProc
     /\ logFileStream = NoStream
     /\ openStreams = 0
     /\ ev.bufferKept

C9_Witness ==
  /\ ev.op = "stop" /\ ev.prevProc # NoProc /\ ev.hadStream
  /\ logBuffer # <<>> /\ Idle(Cur)

\* C10: stop() on an idle session changes nothing and returns its harmless
\* result, and a second stop() right after a stop() changes nothing and
\* returns what the first returned.
C10_StopIdempotent ==
  /\ (ev.op = "stop" /\ ev.prevProc = NoProc /\ ~ev.hadStream) =>
        (ev.unchanged /\ ev.ret.ok)
  /\ ev.op = "stop" =>
        /\ Idle(Cur)
        /\ stopAudit(Cur) = Cur
        /\ stopResult(stopAudit(Cur)) = ev.ret
  /\ Idle(Cur) => stopAudit(Cur) = Cur

C10_Witness ==
  /\ ev.op = "stop" /\ ev.prevProc = NoProc /\ ~ev.hadStream
  /\ currentLogPath # NullPath /\ logBuffer # <<>>

\* C11: when the tail subprocess cannot be launched because the sf tool is
\* missing, start reports a failure to the caller, no subprocess handle is
\* kept (the session is idle) and the service stays up.
C11_LaunchFailureReported ==
  (ev.op = "start" /\ ev.fault = "toolMissing") =>
    (~ev.ret.ok /\ tailProcess = NoProc /\ Up)

\* C12: when the segment cannot be opened during start, the service stays up
\* and the session is running: the subprocess has been launched and its
\* handle is kept.
C12_OpenFailureDegrades ==
  ev.fault = "open" => (Up /\ tailProcess # NoProc)

\* C13: a chunk that arrives from a subprocess after stop has signalled it
\* lands in the stopped session's segment or is dropped from disk.  Stop ends
\* that segment's writer before it returns, so a late chunk that is written
\* to a file at all has landed in a segment of another session: the claim
\* requires that it is not written.
C13_LateChunkOldOrDropped ==
  (ev.op = "data" /\ pstate[ev.proc] = "killed") => ~ev.wrote

\* the archive directories createArchiveDir has made
ArchiveDirs(d) == {k \in DOMAIN d : k[1] = "arch"}

\* the archive directories the last handler created
NewArchives == ArchiveDirs(dirs) \ ArchiveDirs(ev.dirsBefore)

\* C14 (as stated): a first archivePreAnalysis that finds log files creates
\* exactly one archive directory, and a second call in succession, no file
\* having been added in between (no session is running that could add one),
\* creates none.
C14_SecondCallNoArchive ==
  ev.op = "analyze" =>
    /\ (MainFiles(ev.dirsBefore) # {} /\ ArchiveDirs(ev.dirsBefore) = {}) =>
          Cardinality(NewArchives) = 1
    /\ (ev.again /\ ev.prevProc = NoProc /\ Alive(pstate) = {}) => NewArchives = {}

\* C14 (amended): archivePreAnalysis creates the archive directory of the
\* current second exactly when it finds a file in the primary or in the
\* analysis directory and that directory does not exist yet.  A call that
\* follows a call which found log files in the primary directory finds the
\* copies that call left in the analysis directory, and moves them to the
\* analysis/ subfolder of the archive directory of its own second.
C14_SecondCallArchivesCopies ==
  ev.op = "analyze" =>
    LET archiveDir == createArchiveDir(ev.at)
        before == ev.dirsBefore
        found == MainFiles(before) \cup AnalysisFiles(before) # {}
    IN /\ NewArchives = IF found /\ ~existsSync(before, archiveDir) THEN {archiveDir} ELSE {}
       /\ ev.again =>
            /\ AnalysisFiles(before) # {}
            /\ existsSync(dirs, ArchAnalysis(archiveDir))
            /\ \A f \in AnalysisFiles(before) :
                  /\ f \in DOMAIN dirs[ArchAnalysis(archiveDir)]
                  /\ dirs[ArchAnalysis(archiveDir)][f] = before[AnalysisDir][f]

\* a second call, one second after the first, has created a second archive
C14_Witness ==
  /\ ev.op = "analyze" /\ ev.again
  /\ NewArchives # {}
  /\ Cardinality(ArchiveDirs(dirs)) = 2

\* the segment an active session has open in the primary directory
OpenSegment == IF Writable(Cur) THEN {logFileStream.path.name} ELSE {}

\* C15: after archivePreAnalysis has run with files in the primary
\* directory, every one of them is in the archive's main/ subfolder with its
\* content and none remains in the primary directory (which holds at most
\* the segment opened afterwards), the files the analysis directory held are
\* in the archive's analysis/ subfolder, and the analysis directory holds
\* exactly a copy of each file just archived.
C15_ArchiveThenCopy ==
  (ev.op = "analyze" /\ MainFiles(ev.dirsBefore) # {}) =>
    LET archiveDir == createArchiveDir(ev.at)
        before == ev.dirsBefore
        main == before[LogDir]
    IN /\ existsSync(dirs, ArchMain(archiveDir))
       /\ \A f \in DOMAIN main :
             /\ f \in DOMAIN dirs[ArchMain(archiveDir)]
             /\ dirs[ArchMain(archiveDir)][f] = main[f]
             /\ f \in DOMAIN dirs[LogDir] => (f \in OpenSegment /\ dirs[LogDir][f] = <<>>)
       /\ DOMAIN dirs[LogDir] \subseteq OpenSegment
       /\ \A f \in AnalysisFiles(before) :
             /\ existsSync(dirs, ArchAnalysis(archiveDir))
             /\ f \in DOMAIN dirs[ArchAnalysis(archiveDir)]
             /\ dirs[ArchAnalysis(archiveDir)][f] = before[AnalysisDir][f]
       /\ dirs[AnalysisDir] = main

\* the subprocesses that are running: launched, not signalled, not exited
Running == {p \in Procs : pstate[p] = "running"}

\* C16: when archivePreAnalysis returns, the segment that was open has been
\* closed and archived with the rest of the primary directory, and if a
\* session is active (a subprocess is running) a new, empty segment is open
\* and writable in the primary directory, so that the chunks that follow are
\* written to it.
C16_ReopenedForActiveSession ==
  ev.op = "analyze" =>
    /\ ev.hadStream =>
          /\ existsSync(dirs, ArchMain(createArchiveDir(ev.at)))
          /\ ev.prevPath.name \in DOMAIN dirs[ArchMain(createArchiveDir(ev.at))]
    /\ Running # {} =>
          /\ Writable(Cur)
          /\ openStreams = 1
          /\ logFileStream.path = FilePath(LogName(ev.at))
          /\ LogName(ev.at) \in DOMAIN dirs[LogDir]
          /\ dirs[LogDir][LogName(ev.at)] = <<>>

\* the directories archiveOldLogsBeforeAudit has made
OldDirs(d) == {k \in DOMAIN d : k[1] = "old"}

\* C17: a start that finds the primary directory missing or without log
\* files archives nothing: no archive directory is created and no file is
\* moved; every directory other than the primary one is what it was, and
\* the primary directory holds the new segment only.
C17_NothingToArchive ==
  (ev.op = "start" /\ MainFiles(ev.dirsBefore) = {}) =>
    /\ DOMAIN dirs = DOMAIN ev.dirsBefore \cup {LogDir}
    /\ OldDirs(dirs) = OldDirs(ev.dirsBefore)
    /\ \A k \in DOMAIN ev.dirsBefore \ {LogDir} : dirs[k] = ev.dirsBefore[k]
    /\ DOMAIN dirs[LogDir] = {LogName(ev.at)}

\* a start on a primary directory that exists and is empty, next to an
\* archive that holds files
C17_Witness ==
  /\ ev.op = "start"
  /\ existsSync(ev.dirsBefore, LogDir)
  /\ MainFiles(ev.dirsBefore) = {}
  /\ \E k \in DOMAIN dirs : k[1] = "archmain" /\ DOMAIN dirs[k] # {}

\* C18: a start that finds log files in the primary directory moves all of
\* them into a fresh archive directory, one that did not exist before and
\* holds these files and nothing else, and right after the start the primary
\* directory holds the new session's empty segment only.
C18_ArchivedIntoFreshDir ==
  (ev.op = "start" /\ MainFiles(ev.dirsBefore) # {}) =>
    LET archiveDir == <<"old", Stamp(ev.at)>>
    IN /\ ~existsSync(ev.dirsBefore, archiveDir)
       /\ existsSync(dirs, archiveDir)
       /\ dirs[archiveDir] = Restrict(ev.dirsBefore[LogDir], MainFiles(ev.dirsBefore))
       /\ DOMAIN dirs[LogDir] = {LogName(ev.at)}
       /\ dirs[LogDir][LogName(ev.at)] = <<>>

\* the directories that hold archived files
SnapshotDirs(d) == {k \in DOMAIN d : k[1] \in {"old", "archmain", "archanalysis"}}

\* C19: no handler replaces or loses a file that an archive directory
\* already holds: every file found in an archive before the handler ran is
\* in the same archive, with the same content, after it.
C19_SnapshotsKept ==
  \A k \in SnapshotDirs(ev.dirsBefore) :
    \A f \in DOMAIN ev.dirsBefore[k] :
      /\ existsSync(dirs, k)
      /\ f \in DOMAIN dirs[k]
      /\ dirs[k][f] = ev.dirsBefore[k][f]

\* C20: a file that cannot be moved during a start's archive is skipped: the
\* exception does not leave the archive function, so the service stays up,
\* the start is not aborted (it returns its result and the subprocess is
\* launched), and every other log file has been moved out of the primary
\* directory.
C20_MoveFailureSkipped ==
  ev.fault = "move" =>
    /\ Up
    /\ ev.ret.ok
    /\ tailProcess # NoProc
    /\ Cardinality(MainFiles(dirs) \ {LogName(ev.at)}) <= 1

\* the lines of the scanned text, and the positions of those that some rule
\* matches
ScannedLines == split(ev.content)
Matching == {i \in 1..Len(ScannedLines) :
               \E k \in 1..Len(ERROR_PATTERNS) : test(ERROR_PATTERNS[k], ScannedLines[i])}

\* the position of the n-th matching line
LineOf(n) == CHOOSE i \in Matching : Cardinality({j \in Matching : j <= i}) = n

\* the first rule, in the order of ERROR_PATTERNS, that matches the line
Winner(line) ==
  CHOOSE k \in 1..Len(ERROR_PATTERNS) :
    /\ test(ERROR_PATTERNS[k], line)
    /\ \A j \in 1..(k - 1) : ~test(ERROR_PATTERNS[j], line)

\* C22: for every text, the findings are, in ascending line order, one for
\* each line that some rule matches and none for any other line, and each
\* carries the label and the severity of the first rule that matches its
\* line.
C22_FirstRuleWins ==
  ev.op = "scan" =>
    /\ Len(ev.scan.errors) = Cardinality(Matching)
    /\ \A n \in 1..Len(ev.scan.errors) :
         LET line == ScannedLines[LineOf(n)]
             rule == ERROR_PATTERNS[Winner(line)]
         IN /\ ev.scan.errors[n].line = trim(line)
            /\ ev.scan.errors[n].type = rule.label
            /\ ev.scan.errors[n].severity = rule.severity

\* a line that both EXCEPTION_THROWN and NULL_POINTER match, reported once as
\* EXCEPTION_THROWN of severity error, followed by a finding of a later line
\* of severity warning
C22_Witness ==
  /\ ev.op = "scan"
  /\ Len(ev.scan.errors) = 2
  /\ test(ERROR_PATTERNS[1], ScannedLines[LineOf(1)])
  /\ test(ERROR_PATTERNS[9], ScannedLines[LineOf(1)])
  /\ ev.scan.errors[1].type = <<"EXCEPTION", "THROWN">>
  /\ ev.scan.errors[1].severity = "error"
  /\ ev.scan.errors[2].severity = "warning"

\* C23: the context of a finding at line i of n is line i-1 (nothing when
\* i = 1), the marked matched line, and line i+1 (nothing when i = n).
C23_ContextClipped ==
  ev.op = "scan" =>
    \A n \in 1..Len(ev.scan.errors) :
      LET i == LineOf(n)
          before == IF i = 1 THEN <<>> ELSE ScannedLines[i - 1]
          after == IF i = Len(ScannedLines) THEN <<>> ELSE ScannedLines[i + 1]
      IN ev.scan.errors[n].context =
           before \o <<NL, ">>> ">> \o ScannedLines[i] \o <<" <<<", NL>> \o after

\* a match on the second of three lines, the first and the third not empty
C23_Witness ==
  /\ ev.op = "scan"
  /\ Len(ev.scan.errors) = 1
  /\ LineOf(1) = 2
  /\ Len(ScannedLines) = 3
  /\ ScannedLines[1] # <<>>
  /\ ScannedLines[3] # <<>>

\* how often a part occurs in a report
Count(report, part) == Cardinality({n \in 1..Len(report) : report[n] = part})

\* the categories of labels the suggestions are selected by (lines 87-89)
ValidationRelated(label) == includes(label, "VALIDATION")
ExceptionRelated(label) == includes(label, "EXCEPTION") \/ label = <<"FATAL">>
LimitRelated(label) == includes(label, "LIMIT")

C21_AgentFailureFallsBack ==
  ev.fault = "agent" =>
    /\ Up
    /\ ev.sent = 1
    /\ ev.source = "regex"
    /\ ev.scan = analyzeLogs(ReqText)

\* C25: the 'close' event of a subprocess that a later start has replaced
\* leaves the current session as it is: the handle of the current subprocess
\* stays held, and its segment stays open and writable.
C25_StaleCloseIgnored ==
  (ev.op = "close" /\ ev.prevProc # NoProc /\ ev.proc # ev.prevProc) =>
    /\ tailProcess = ev.prevProc
    /\ Writable(Cur) = ev.hadStream
    /\ ev.hadStream => logFileStream.path = ev.prevPath

\* C26: after a start that has replaced a running session, a chunk that the
\* previous subprocess emits and that is delivered after the restart is not
\* appended to the live buffer and is not written to the new segment.
C26_OldOutputNotInNewSession ==
  (ev.op = "data" /\ ev.prevProc # NoProc /\ ev.proc # ev.prevProc) =>
    /\ ev.bufferKept
    /\ ~ev.wrote

\* C27: whenever the writer is not null the subprocess handle is not null,
\* and the recorded current file path is the path of the file the writer
\* writes to.
C27_WriterOnlyWhileRunning ==
  logFileStream # NoStream =>
    /\ tailProcess # NoProc
    /\ currentLogFilePath = logFileStream.path

\* a rotation has replaced the writer and the recorded file path
C27_Witness ==
  /\ ev.op = "data"
  /\ ev.rotations > 0
  /\ logFileStream # NoStream
  /\ logFileStream.path # ev.prevPath

====
